---- MODULE Spec2Model ----
(***************************************************************************)
(* Mailbox view-state machine of the EmailApp component                    *)
(* (src/client/src/components/emailApp/emailApp.jsx).                      *)
(*                                                                         *)
(* The component is a React function component.  One step of the model is  *)
(* one event (a handler call or the arrival of a fetch response) together  *)
(* with everything React does before the next event can be handled: the    *)
(* batched state updates, the re-render, the effects whose dependencies    *)
(* changed (clean-ups first), and the renders those effects cause in turn. *)
(*                                                                         *)
(* Strings are TLA+ strings (TLC evaluates Len, SubSeq and \o on them).    *)
(* JavaScript null is modelled by Null for cursors, NoEstimate for the     *)
(* result estimate and NoThread for the open thread.                       *)
(***************************************************************************)
EXTENDS Integers, Sequences, FiniteSets, TLC

VARIABLES
    mailbox,          \* prop: the mailbox address
    activeFolder,     \* useState(folderDefinitions[0].key)
    threads,          \* useState([])      sequence of thread summaries
    threadsLoading,   \* useState(false)
    threadsError,     \* useState("")
    selectedThread,   \* useState(null)    the open thread (a copy), or NoThread
    searchInput,      \* useState("")      live-typing value
    filterForm,       \* useState(filterDefaults)
    activeQuery,      \* useState("")      last committed query
    pageToken,        \* useState(null)
    prevPageTokens,   \* useState([])
    nextPageToken,    \* useState(null)
    resultEstimate,   \* useState(null)
    pageIndex,        \* useState(0)
    selectedIds,      \* useState([])
    fetches,          \* thread fetches in flight, each with its `ignore` flag
    bulks,            \* bulk requests in flight, in the order they were sent
    composeOpen,      \* useState(false)
    composeForm,      \* useState(buildComposeDefaults)
    composeStatus,    \* useState({loading: false, error: "", success: ""})
    sends,            \* sends in flight: for each, the opening it was sent in
    reads,            \* handleAttachmentSelect calls whose files are being read
    composeSession,   \* history: the number of openings of Compose so far
    dispatched,       \* history: the requests dispatched by the last step
    responseNext,     \* history: data.nextPageToken of the last response used
    lastOp            \* history: the name of the last step

vars == << mailbox, activeFolder, threads, threadsLoading, threadsError,
           selectedThread, searchInput, filterForm, activeQuery, pageToken,
           prevPageTokens, nextPageToken, resultEstimate, pageIndex,
           selectedIds, fetches, bulks, composeOpen, composeForm,
           composeStatus, sends, reads, composeSession, dispatched,
           responseNext, lastOp >>

\* The compose dialog, which no effect of the component reads or writes.
composeVars == << composeOpen, composeForm, composeStatus, sends, reads,
                  composeSession >>

\* Everything else but the history of the last step.
sessionVars == << mailbox, activeFolder, threads, threadsLoading,
                  threadsError, selectedThread, searchInput, filterForm,
                  activeQuery, pageToken, prevPageTokens, nextPageToken,
                  resultEstimate, pageIndex, selectedIds, fetches, bulks,
                  responseNext >>

---------------------------------------------------------------------------
(* Bounds of the model *)

MaxToken == 1        \* the server hands out the cursors 1..MaxToken
MaxPageIndex == 2    \* goToNextPage is not taken beyond this pageIndex
MaxBulk == 1         \* bulk requests in flight at the same time
MaxSends == 2        \* sends in flight at the same time
MaxSessions == 2     \* openings of Compose
MaxAttachments == 1  \* files attached to a draft
MaxBody == 3         \* length of the body an emoji is still added to

(* Representations of null *)

Null == 0            \* a null cursor (pageToken, nextPageToken)
NoEstimate == -1     \* resultEstimate === null
NoThread == [id |-> 0, isStarred |-> FALSE]   \* selectedThread === null

---------------------------------------------------------------------------
(* Static data *)

folderDefinitions ==
    << "inbox", "sent", "drafts", "starred", "archive", "spam", "deleted" >>

folderQueryMap(key) ==
    CASE key = "inbox"   -> "in:inbox"
      [] key = "sent"    -> "in:sent"
      [] key = "drafts"  -> "in:drafts"
      [] key = "starred" -> "is:starred"
      [] key = "archive" -> "in:archive"
      [] key = "spam"    -> "in:spam"
      [] key = "deleted" -> "in:trash"
      [] OTHER           -> ""

filterDefaults ==
    [ from |-> "", to |-> "", subject |-> "", dateStart |-> "",
      dateEnd |-> "", folder |-> "", hasAttachment |-> FALSE ]

(* Inputs the environment draws from *)

Mailboxes == { "a@x.com" }
OtherMailboxes == { "b@x.com" }     \* what the mailbox prop may change to
Folders == { "inbox", "sent" }
SearchInputs == { "", " inv" }
Tokens == 1 .. MaxToken
FetchErrors == { "", "quota" }      \* data.error of a response that is not ok
BulkErrors == { "", "quota" }       \* data.error of a bulk response not ok

\* What the user may have typed in the search box and in the filter form
\* before a commit: values with blanks around them, both dates in either
\* order, a filter folder that need not be the active one.
FreeTexts == { "", "  ", " inv " }
FilterForms ==
    [ from : { "", "a@x.com" }, to : { "", "b@x.com" },
      subject : { "", "hi " },
      dateStart : { "", "1970-01-02", "1970-01-03" },
      dateEnd : { "", "1970-01-02", "1970-01-03" },
      folder : { "", "inbox", "starred" }, hasAttachment : BOOLEAN ]

Th(i, s) == [id |-> i, isStarred |-> s]

\* data.messages and data.resultSizeEstimate of a response that is ok (the
\* server is an opaque collaborator); NoEstimate stands for an estimate that
\* is not a number.
ServerPages ==
    { [ messages |-> << >>, resultSizeEstimate |-> NoEstimate ],
      [ messages |-> << Th(1, FALSE), Th(2, TRUE) >>, resultSizeEstimate |-> 40 ],
      [ messages |-> << Th(2, TRUE) >>, resultSizeEstimate |-> 26 ] }

\* data.nextPageToken of the response to a request: the server's cursors form
\* a forward-only chain null -> 1 -> 2 ..., and a page may be the last one.
ServerNext(req) ==
    { Null } \cup { t \in Tokens : req.ignore \/ t = req.pageToken + 1 }

---------------------------------------------------------------------------
(* Query Builder *)

RECURSIVE trimStart(_)
trimStart(s) ==
    IF Len(s) > 0 /\ SubSeq(s, 1, 1) = " "
    THEN trimStart(SubSeq(s, 2, Len(s)))
    ELSE s

RECURSIVE trimEnd(_)
trimEnd(s) ==
    IF Len(s) > 0 /\ SubSeq(s, Len(s), Len(s)) = " "
    THEN trimEnd(SubSeq(s, 1, Len(s) - 1))
    ELSE s

\* String.prototype.trim
trim(s) == trimEnd(trimStart(s))

\* Array.prototype.join
RECURSIVE join(_, _)
join(tokens, sep) ==
    IF Len(tokens) = 0 THEN ""
    ELSE IF Len(tokens) = 1 THEN tokens[1]
    ELSE tokens[1] \o sep \o join(Tail(tokens), sep)

\* The day number (days since 1970-01-01) of a value of <input type="date">;
\* new Date("YYYY-MM-DD") is midnight UTC of that day.
DayNumber(date) ==
    CASE date = "1970-01-02" -> 1
      [] date = "1970-01-03" -> 2
      [] OTHER               -> 0

\* Offset of the local time zone from UTC, in seconds (east positive).
LocalOffset == 0

\* Math.floor(new Date(dateStart).getTime() / 1000)
startSeconds(date) == DayNumber(date) * 86400

\* Math.floor(new Date(dateEnd).setHours(23, 59, 59, 999) / 1000): setHours
\* works on the local calendar day that holds the UTC midnight instant.
endSeconds(date) ==
    LET localDay == (DayNumber(date) * 86400 + LocalOffset) \div 86400
    IN  localDay * 86400 + 86399 - LocalOffset

Tok(cond, token) == IF cond THEN << token >> ELSE << >>

\* Faulty variant of buildSearchQuery: the to: token is pushed before from:.
buildSearchQueryToFirst(text, form) ==
    LET trimmedText == trim(text)
        tokens ==
            Tok(trimmedText # "", trimmedText)
            \o Tok(form.to # "", "to:" \o form.to)
            \o Tok(form.from # "", "from:" \o form.from)
            \o Tok(form.subject # "", "subject:" \o form.subject)
            \o Tok(form.dateStart # "",
                   "after:" \o ToString(startSeconds(form.dateStart)))
            \o Tok(form.dateEnd # "",
                   "before:" \o ToString(endSeconds(form.dateEnd)))
            \o Tok(form.hasAttachment, "has:attachment")
            \o Tok(form.folder # "" /\ folderQueryMap(form.folder) # "",
                   folderQueryMap(form.folder))
    IN  trim(join(tokens, " "))

buildSearchQuery(text, form) ==
    LET trimmedText == trim(text)
        tokens ==
            Tok(trimmedText # "", trimmedText)
            \o Tok(form.from # "", "from:" \o form.from)
            \o Tok(form.to # "", "to:" \o form.to)
            \o Tok(form.subject # "", "subject:" \o form.subject)
            \o Tok(form.dateStart # "",
                   "after:" \o ToString(startSeconds(form.dateStart)))
            \o Tok(form.dateEnd # "",
                   "before:" \o ToString(endSeconds(form.dateEnd)))
            \o Tok(form.hasAttachment, "has:attachment")
            \o Tok(form.folder # "" /\ folderQueryMap(form.folder) # "",
                   folderQueryMap(form.folder))
    IN  trim(join(tokens, " "))

---------------------------------------------------------------------------
(* The component state as one record, and the effects *)

State ==
    [ mailbox |-> mailbox, activeFolder |-> activeFolder, threads |-> threads,
      threadsLoading |-> threadsLoading, threadsError |-> threadsError,
      selectedThread |-> selectedThread, searchInput |-> searchInput,
      filterForm |-> filterForm, activeQuery |-> activeQuery,
      pageToken |-> pageToken, prevPageTokens |-> prevPageTokens,
      nextPageToken |-> nextPageToken, resultEstimate |-> resultEstimate,
      pageIndex |-> pageIndex, selectedIds |-> selectedIds,
      fetches |-> fetches, bulks |-> bulks, dispatched |-> << >>,
      responseNext |-> responseNext ]

resetPagination(s) ==
    [ s EXCEPT !.pageToken = Null, !.prevPageTokens = << >>,
               !.nextPageToken = Null, !.resultEstimate = NoEstimate,
               !.pageIndex = 0, !.selectedIds = << >> ]

\* Faulty variant of mailboxEffect: setActiveFolder is forgotten.
mailboxEffectKeepFolder(s) ==
    resetPagination(
        [ s EXCEPT !.selectedThread = NoThread, !.threads = << >>,
                   !.searchInput = "", !.activeQuery = "" ])

\* useEffect(..., [mailbox])
mailboxEffect(s) ==
    resetPagination(
        [ s EXCEPT !.activeFolder = folderDefinitions[1],
                   !.selectedThread = NoThread, !.threads = << >>,
                   !.searchInput = "", !.activeQuery = "" ])

\* Faulty variant of activeFolderEffect: the effect forgets resetPagination().
activeFolderEffectNoReset(s) ==
    [ s EXCEPT !.selectedThread = NoThread, !.threads = << >>,
               !.searchInput = "", !.activeQuery = "" ]

\* useEffect(..., [activeFolder])
activeFolderEffect(s) ==
    resetPagination(
        [ s EXCEPT !.selectedThread = NoThread, !.threads = << >>,
                   !.searchInput = "", !.activeQuery = "" ])

\* The request loadFolderMessages sends, from the values of the render r.
Request(r) ==
    [ mailbox |-> r.mailbox, folder |-> r.activeFolder,
      query |-> r.activeQuery, pageToken |-> r.pageToken, ignore |-> FALSE ]

\* The clean-up of the previous run of the fetch effect: ignore = true.
\* Nothing of a superseded request is read again by the component, so what
\* it asked for is forgotten and the superseded fetches in flight are kept
\* as one: its response may be any response of the server, at any time.
Superseded ==
    [ mailbox |-> "", folder |-> "", query |-> "", pageToken |-> Null,
      ignore |-> TRUE ]

fetchCleanup(fs) == { Superseded : f \in fs }

\* useEffect(..., [mailbox, activeFolder, activeQuery, pageToken, refreshKey]):
\* the clean-up of the previous run, then loadFolderMessages up to its await.
\* s is the state the updates are queued on, r the render the effect closes over.
loadFolderMessages(s, r) ==
    IF r.mailbox = "" \/ r.activeFolder = ""
    THEN [ s EXCEPT !.fetches = fetchCleanup(s.fetches) ]
    ELSE [ s EXCEPT !.fetches = fetchCleanup(s.fetches) \cup { Request(r) },
                    !.dispatched = Append(s.dispatched, Request(r)),
                    !.threadsLoading = TRUE,
                    !.threadsError = "" ]

\* threads.find((thread) => thread.id === id), NoThread when there is none
RECURSIVE find(_, _)
find(ts, id) ==
    IF Len(ts) = 0 THEN NoThread
    ELSE IF ts[1].id = id THEN ts[1]
    ELSE find(Tail(ts), id)

\* Faulty variant of deriveSelectedThread: the open thread is kept without
\* looking it up in the new list.
deriveSelectedThreadKeep(ts, current) ==
    IF Len(ts) = 0 THEN NoThread
    ELSE IF current # NoThread THEN current
         ELSE ts[1]

\* Faulty variant of deriveSelectedThread: the first thread is always taken.
deriveSelectedThreadFirst(ts, current) ==
    IF Len(ts) = 0 THEN NoThread ELSE ts[1]

\* useEffect(..., [threads]): the updater given to setSelectedThread
deriveSelectedThread(ts, current) ==
    IF Len(ts) = 0 THEN NoThread
    ELSE IF current # NoThread /\ find(ts, current.id) # NoThread
         THEN find(ts, current.id)
         ELSE ts[1]

\* One render and its effects, in the order of their declaration.  p is the
\* previous render, c this one; threadsSet tells that setThreads was called
\* since p (a new array is a changed dependency whatever it holds), refreshed
\* that refreshKey changed, mount that this is the first render.
effects(p, c, threadsSet, refreshed, mount) ==
    LET mailboxChanged == mount \/ c.mailbox # p.mailbox
        folderChanged == mount \/ c.activeFolder # p.activeFolder
        fetchChanged == \/ mailboxChanged
                        \/ folderChanged
                        \/ c.activeQuery # p.activeQuery
                        \/ c.pageToken # p.pageToken
                        \/ refreshed
        s1 == IF mailboxChanged THEN mailboxEffect(c) ELSE c
        s2 == IF folderChanged THEN activeFolderEffect(s1) ELSE s1
        s3 == IF fetchChanged THEN loadFolderMessages(s2, c) ELSE s2
        s4 == IF mount \/ threadsSet
              THEN [ s3 EXCEPT !.selectedThread =
                         deriveSelectedThread(c.threads, s3.selectedThread) ]
              ELSE s3
    IN  [ state |-> s4, threadsSet |-> mailboxChanged \/ folderChanged ]

\* Renders and effects until nothing is left to do.
RECURSIVE settle(_, _, _, _, _)
settle(p, c, threadsSet, refreshed, mount) ==
    LET e == effects(p, c, threadsSet, refreshed, mount)
    IN  IF e.state = c /\ ~ e.threadsSet
        THEN c
        ELSE settle(c, e.state, e.threadsSet, FALSE, FALSE)

---------------------------------------------------------------------------
(* Handlers: the state updates each handler queues *)

ids(ts) == [ i \in 1 .. Len(ts) |-> ts[i].id ]

includes(seq, x) == \E i \in 1 .. Len(seq) : seq[i] = x

RECURSIVE filterOut(_, _)
\* prev.filter((id) => id !== x)
filterOut(seq, x) ==
    IF Len(seq) = 0 THEN << >>
    ELSE IF seq[1] = x THEN filterOut(Tail(seq), x)
    ELSE << seq[1] >> \o filterOut(Tail(seq), x)

handleFolderSelect(s, folderKey) ==
    IF folderKey = s.activeFolder THEN s
    ELSE [ s EXCEPT !.threads = << >>, !.threadsError = "",
                    !.selectedThread = NoThread, !.activeFolder = folderKey ]

handleFilterField(s, field, value) ==
    [ s EXCEPT !.filterForm = [ s.filterForm EXCEPT ![field] = value ] ]

handleApplyFilters(s) ==
    resetPagination(
        [ s EXCEPT !.activeQuery = buildSearchQuery(s.searchInput, s.filterForm) ])

handleClearFilters(s) ==
    resetPagination(
        [ s EXCEPT !.filterForm = filterDefaults, !.searchInput = "",
                   !.activeQuery = "" ])

handleSearchSubmit(s) ==
    resetPagination(
        [ s EXCEPT !.activeQuery = buildSearchQuery(s.searchInput, s.filterForm) ])

clearSearch(s) ==
    resetPagination([ s EXCEPT !.searchInput = "", !.activeQuery = "" ])

\* Faulty variant of goToNextPage: the next cursor is pushed instead of the current.
goToNextPagePushNext(s) ==
    IF s.nextPageToken = Null THEN s
    ELSE [ s EXCEPT !.prevPageTokens =
                        Append(s.prevPageTokens, s.nextPageToken),
                    !.pageToken = s.nextPageToken,
                    !.pageIndex = s.pageIndex + 1 ]

goToNextPage(s) ==
    IF s.nextPageToken = Null THEN s
    ELSE [ s EXCEPT !.prevPageTokens = Append(s.prevPageTokens, s.pageToken),
                    !.pageToken = s.nextPageToken,
                    !.pageIndex = s.pageIndex + 1 ]

\* Faulty variant of goToPrevPage: setPageIndex is forgotten.
goToPrevPageKeepIndex(s) ==
    IF Len(s.prevPageTokens) = 0 THEN s
    ELSE [ s EXCEPT !.prevPageTokens =
                        SubSeq(s.prevPageTokens, 1, Len(s.prevPageTokens) - 1),
                    !.pageToken = s.prevPageTokens[Len(s.prevPageTokens)] ]

\* copy.pop() || null: the cursors are null or non-empty, so || changes nothing
goToPrevPage(s) ==
    IF Len(s.prevPageTokens) = 0 THEN s
    ELSE [ s EXCEPT !.prevPageTokens =
                        SubSeq(s.prevPageTokens, 1, Len(s.prevPageTokens) - 1),
                    !.pageToken = s.prevPageTokens[Len(s.prevPageTokens)],
                    !.pageIndex = IF s.pageIndex - 1 > 0 THEN s.pageIndex - 1
                                  ELSE 0 ]

handleThreadSelect(s, threadId, checked) ==
    IF checked
    THEN IF includes(s.selectedIds, threadId) THEN s
         ELSE [ s EXCEPT !.selectedIds = Append(s.selectedIds, threadId) ]
    ELSE [ s EXCEPT !.selectedIds = filterOut(s.selectedIds, threadId) ]

\* Faulty variant of allSelected: any selection counts as the full one.
allSelectedAny(s) ==
    Len(s.threads) > 0 /\ Len(s.selectedIds) > 0

allSelected(s) ==
    Len(s.threads) > 0 /\ Len(s.selectedIds) = Len(s.threads)

handleToggleSelectAll(s) ==
    IF Len(s.threads) = 0 THEN s
    ELSE IF allSelected(s) THEN [ s EXCEPT !.selectedIds = << >> ]
    ELSE [ s EXCEPT !.selectedIds = ids(s.threads) ]

\* onClick={() => setSelectedThread(thread)} of a row of the thread list
openThread(s, thread) == [ s EXCEPT !.selectedThread = thread ]

\* err.message || "Unable to load messages.", where err is
\* new Error(data.error || "Failed to load messages.")
errorMessage(dataError) ==
    LET message == IF dataError # "" THEN dataError
                   ELSE "Failed to load messages."
    IN  IF message # "" THEN message ELSE "Unable to load messages."

\* Faulty variant of fetchSettled: the `if (!ignore)` guards are missing.
fetchSettledNoIgnore(s, f, data) ==
    LET rest == [ s EXCEPT !.fetches = s.fetches \ { f } ]
    IN  IF data.ok
        THEN [ rest EXCEPT !.threads = data.messages,
                           !.selectedIds = << >>,
                           !.nextPageToken = data.nextPageToken,
                           !.resultEstimate = data.resultSizeEstimate,
                           !.threadsLoading = FALSE,
                           !.responseNext = data.nextPageToken ]
        ELSE [ rest EXCEPT !.threads = << >>,
                           !.threadsError = errorMessage(data.error),
                           !.threadsLoading = FALSE ]

\* Faulty variant of fetchSettled: the success branch forgets setSelectedIds([]).
fetchSettledKeepSelection(s, f, data) ==
    LET rest == [ s EXCEPT !.fetches = s.fetches \ { f } ]
    IN  IF f.ignore THEN rest
        ELSE IF data.ok
        THEN [ rest EXCEPT !.threads = data.messages,
                           !.nextPageToken = data.nextPageToken,
                           !.resultEstimate = data.resultSizeEstimate,
                           !.threadsLoading = FALSE,
                           !.responseNext = data.nextPageToken ]
        ELSE [ rest EXCEPT !.threads = << >>,
                           !.threadsError = errorMessage(data.error),
                           !.threadsLoading = FALSE ]

\* Faulty variant of fetchSettled: the spinner is stopped by an ok response only.
fetchSettledSpinsOnFailure(s, f, data) ==
    LET rest == [ s EXCEPT !.fetches = s.fetches \ { f } ]
    IN  IF f.ignore THEN rest
        ELSE IF data.ok
        THEN [ rest EXCEPT !.threads = data.messages,
                           !.selectedIds = << >>,
                           !.nextPageToken = data.nextPageToken,
                           !.resultEstimate = data.resultSizeEstimate,
                           !.threadsLoading = FALSE,
                           !.responseNext = data.nextPageToken ]
        ELSE [ rest EXCEPT !.threads = << >>,
                           !.threadsError = errorMessage(data.error) ]

\* loadFolderMessages after its await, for the request f: data is the
\* response, [ok, messages, nextPageToken, resultSizeEstimate, error].
fetchSettled(s, f, data) ==
    LET rest == [ s EXCEPT !.fetches = s.fetches \ { f } ]
    IN  IF f.ignore THEN rest
        ELSE IF data.ok
        THEN [ rest EXCEPT !.threads = data.messages,
                           !.selectedIds = << >>,
                           !.nextPageToken = data.nextPageToken,
                           !.resultEstimate = data.resultSizeEstimate,
                           !.threadsLoading = FALSE,
                           !.responseNext = data.nextPageToken ]
        ELSE [ rest EXCEPT !.threads = << >>,
                           !.threadsError = errorMessage(data.error),
                           !.threadsLoading = FALSE ]

\* Faulty variant of availableTargets: the open thread comes before the selection.
availableTargetsOpenFirst(s) ==
    IF s.selectedThread # NoThread THEN << s.selectedThread.id >>
    ELSE s.selectedIds

availableTargets(s) ==
    IF Len(s.selectedIds) > 0 THEN s.selectedIds
    ELSE IF s.selectedThread # NoThread THEN << s.selectedThread.id >>
    ELSE << >>

canBulkAct(s) == Len(availableTargets(s)) > 0

\* Faulty variant of handleBulkAction: the view is patched when the
\* request is sent.
handleBulkActionOptimistic(s, action, explicitTargets) ==
    LET targets == IF explicitTargets # << >> THEN explicitTargets
                   ELSE availableTargets(s)
        starred == action = "star"
    IN  IF s.mailbox = "" \/ Len(targets) = 0 THEN s
        ELSE [ s EXCEPT
                 !.bulks =
                     Append(s.bulks,
                            [ action |-> action, targets |-> targets,
                              openIsTarget |->
                                  includes(targets, s.selectedThread.id) ]),
                 !.threads =
                     IF action \in { "star", "unstar" }
                     THEN [ i \in 1 .. Len(s.threads) |->
                              IF includes(targets, s.threads[i].id)
                              THEN [ s.threads[i] EXCEPT !.isStarred = starred ]
                              ELSE s.threads[i] ]
                     ELSE SelectSeq(s.threads,
                                    LAMBDA th : ~ includes(targets, th.id)) ]

\* handleBulkAction up to its await.  explicitTargets = << >> stands for the
\* omitted argument.  The request in flight keeps what the continuation
\* reads after the await: action, targets, and whether the selectedThread of
\* the calling render is one of the targets
\* (targets.includes(selectedThread?.id)).
handleBulkAction(s, action, explicitTargets) ==
    LET targets == IF explicitTargets # << >> THEN explicitTargets
                   ELSE availableTargets(s)
    IN  IF s.mailbox = "" \/ Len(targets) = 0 THEN s
        ELSE [ s EXCEPT !.bulks =
                 Append(s.bulks,
                        [ action |-> action, targets |-> targets,
                          openIsTarget |->
                              includes(targets, s.selectedThread.id) ]) ]

handleToggleStar(s, thread, nextState) ==
    handleBulkAction(s, IF nextState THEN "star" ELSE "unstar", << thread.id >>)

\* err.message || "Unable to update messages.", where err is
\* new Error(data.error || `Failed to ${action} messages.`)
bulkErrorMessage(action, dataError) ==
    LET message == IF dataError # "" THEN dataError
                   ELSE "Failed to " \o action \o " messages."
    IN  IF message # "" THEN message ELSE "Unable to update messages."

\* The patch of one thread by star / unstar (labelIds, which nothing of the
\* view state reads, is not kept in the thread summaries of the model).
starPatch(thread, targets, starredValue) ==
    IF includes(targets, thread.id)
    THEN [ thread EXCEPT !.isStarred = starredValue ]
    ELSE thread

\* Faulty variant of starThreads: every thread of the list is patched.
starThreadsAll(ts, targets, starredValue) ==
    [ i \in 1 .. Len(ts) |-> [ ts[i] EXCEPT !.isStarred = starredValue ] ]

\* prev.map((thread) => targets.includes(thread.id) ? {...} : thread)
starThreads(ts, targets, starredValue) ==
    [ i \in 1 .. Len(ts) |-> starPatch(ts[i], targets, starredValue) ]

\* prev.filter((thread) => !targets.includes(thread.id))
removeThreads(ts, targets) ==
    SelectSeq(ts, LAMBDA thread : ~ includes(targets, thread.id))

\* prev.filter((id) => !targets.includes(id))
removeIds(seq, targets) ==
    SelectSeq(seq, LAMBDA id : ~ includes(targets, id))

\* The bulks in flight without the i-th.
dropBulk(bs, i) == SubSeq(bs, 1, i - 1) \o SubSeq(bs, i + 1, Len(bs))

\* Faulty variant of bulkSettled: archive and delete patch the view whatever
\* the response, and a failure only adds the message.
bulkSettledPatchFirst(s, i, ok, dataError) ==
    LET b == s.bulks[i]
        rest == [ s EXCEPT !.bulks = dropBulk(s.bulks, i) ]
        shown == IF ok THEN rest
                 ELSE [ rest EXCEPT !.threadsError =
                                        bulkErrorMessage(b.action, dataError) ]
    IN  IF b.action = "star" \/ b.action = "unstar"
        THEN IF ~ ok THEN shown
             ELSE [ shown EXCEPT
                      !.threads = starThreads(s.threads, b.targets,
                                              b.action = "star"),
                      !.selectedThread =
                          IF s.selectedThread # NoThread
                          THEN starPatch(s.selectedThread, b.targets,
                                         b.action = "star")
                          ELSE s.selectedThread ]
        ELSE [ shown EXCEPT
                 !.threads = removeThreads(s.threads, b.targets),
                 !.selectedIds = removeIds(s.selectedIds, b.targets),
                 !.selectedThread = IF b.openIsTarget THEN NoThread
                                    ELSE s.selectedThread ]

\* handleBulkAction after its await, for the i-th request in flight: ok is
\* response.ok, dataError is data.error.
bulkSettled(s, i, ok, dataError) ==
    LET b == s.bulks[i]
        rest == [ s EXCEPT !.bulks = dropBulk(s.bulks, i) ]
    IN  IF ~ ok
        THEN [ rest EXCEPT !.threadsError =
                               bulkErrorMessage(b.action, dataError) ]
        ELSE IF b.action = "star" \/ b.action = "unstar"
        THEN [ rest EXCEPT
                 !.threads = starThreads(s.threads, b.targets,
                                         b.action = "star"),
                 !.selectedThread =
                     IF s.selectedThread # NoThread
                     THEN starPatch(s.selectedThread, b.targets,
                                    b.action = "star")
                     ELSE s.selectedThread ]
        ELSE [ rest EXCEPT
                 !.threads = removeThreads(s.threads, b.targets),
                 !.selectedIds = removeIds(s.selectedIds, b.targets),
                 !.selectedThread = IF b.openIsTarget THEN NoThread
                                    ELSE s.selectedThread ]

\* The responses the server may give to the request f.
Responses(f) ==
    { [ ok |-> TRUE, messages |-> m.messages, nextPageToken |-> n,
        resultSizeEstimate |-> m.resultSizeEstimate, error |-> "" ] :
          m \in ServerPages, n \in ServerNext(f) }
    \cup
    { [ ok |-> FALSE, messages |-> << >>, nextPageToken |-> Null,
        resultSizeEstimate |-> NoEstimate, error |-> x ] : x \in FetchErrors }

---------------------------------------------------------------------------
(* The state machine *)

Commit(r, op) ==
    /\ mailbox' = r.mailbox
    /\ activeFolder' = r.activeFolder
    /\ threads' = r.threads
    /\ threadsLoading' = r.threadsLoading
    /\ threadsError' = r.threadsError
    /\ selectedThread' = r.selectedThread
    /\ searchInput' = r.searchInput
    /\ filterForm' = r.filterForm
    /\ activeQuery' = r.activeQuery
    /\ pageToken' = r.pageToken
    /\ prevPageTokens' = r.prevPageTokens
    /\ nextPageToken' = r.nextPageToken
    /\ resultEstimate' = r.resultEstimate
    /\ pageIndex' = r.pageIndex
    /\ selectedIds' = r.selectedIds
    /\ fetches' = r.fetches
    /\ bulks' = r.bulks
    /\ UNCHANGED composeVars
    /\ dispatched' = r.dispatched
    /\ responseNext' = r.responseNext
    /\ lastOp' = op

buildComposeDefaults ==
    [ to |-> "", cc |-> "", bcc |-> "", subject |-> "", body |-> "",
      attachments |-> << >> ]

\* { loading: false, error: "", success: "" }
composeIdle == [ loading |-> FALSE, error |-> "", success |-> "" ]

\* The compose dialog of the first render.
ComposeMounted ==
    /\ composeOpen = FALSE
    /\ composeForm = buildComposeDefaults
    /\ composeStatus = composeIdle
    /\ sends = << >>
    /\ reads = 0
    /\ composeSession = 0

\* The state of the first render: the useState initial values.
Mounted(m) ==
    [ mailbox |-> m, activeFolder |-> folderDefinitions[1], threads |-> << >>,
      threadsLoading |-> FALSE, threadsError |-> "",
      selectedThread |-> NoThread, searchInput |-> "",
      filterForm |-> filterDefaults, activeQuery |-> "",
      pageToken |-> Null, prevPageTokens |-> << >>,
      nextPageToken |-> Null, resultEstimate |-> NoEstimate,
      pageIndex |-> 0, selectedIds |-> << >>,
      fetches |-> { }, bulks |-> << >>, dispatched |-> << >>,
      responseNext |-> Null ]

Init ==
    \E m \in Mailboxes :
        LET r == settle(Mounted(m), Mounted(m), FALSE, FALSE, TRUE)
        IN  /\ mailbox = r.mailbox
            /\ activeFolder = r.activeFolder
            /\ threads = r.threads
            /\ threadsLoading = r.threadsLoading
            /\ threadsError = r.threadsError
            /\ selectedThread = r.selectedThread
            /\ searchInput = r.searchInput
            /\ filterForm = r.filterForm
            /\ activeQuery = r.activeQuery
            /\ pageToken = r.pageToken
            /\ prevPageTokens = r.prevPageTokens
            /\ nextPageToken = r.nextPageToken
            /\ resultEstimate = r.resultEstimate
            /\ pageIndex = r.pageIndex
            /\ selectedIds = r.selectedIds
            /\ fetches = r.fetches
            /\ bulks = r.bulks
            /\ ComposeMounted
            /\ dispatched = r.dispatched
            /\ responseNext = r.responseNext
            /\ lastOp = "mount"

\* A handler that queues the updates h on the state, then the renders.
Handle(h, threadsSet, refreshed, op) ==
    Commit(settle(State, h, threadsSet, refreshed, FALSE), op)

FolderSelect ==
    \E folderKey \in Folders :
        Handle(handleFolderSelect(State, folderKey),
               folderKey # activeFolder, FALSE, "handleFolderSelect")

SetSearchInput ==
    \E v \in SearchInputs :
        /\ v # searchInput
        /\ Handle([ State EXCEPT !.searchInput = v ], FALSE, FALSE,
                  "setSearchInput")

FilterField ==
    \E b \in BOOLEAN :
        /\ b # filterForm.hasAttachment
        /\ Handle(handleFilterField(State, "hasAttachment", b), FALSE, FALSE,
                  "handleFilterField")

ApplyFilters ==
    Handle(handleApplyFilters(State), FALSE, FALSE, "handleApplyFilters")

ClearFilters ==
    Handle(handleClearFilters(State), FALSE, FALSE, "handleClearFilters")

SearchSubmit ==
    Handle(handleSearchSubmit(State), FALSE, FALSE, "handleSearchSubmit")

ClearSearch ==
    Handle(clearSearch(State), FALSE, FALSE, "clearSearch")

NextPage ==
    /\ pageIndex < MaxPageIndex
    /\ Handle(goToNextPage(State), FALSE, FALSE, "goToNextPage")

PrevPage ==
    Handle(goToPrevPage(State), FALSE, FALSE, "goToPrevPage")

\* The rows of the thread list are rendered only while !threadsLoading.
ThreadSelect ==
    /\ ~ threadsLoading
    /\ \E i \in 1 .. Len(threads) :
           Handle(handleThreadSelect(State, threads[i].id,
                                     ~ includes(selectedIds, threads[i].id)),
                  FALSE, FALSE, "handleThreadSelect")

ToggleSelectAll ==
    Handle(handleToggleSelectAll(State), FALSE, FALSE, "handleToggleSelectAll")

OpenThread ==
    /\ ~ threadsLoading
    /\ \E i \in 1 .. Len(threads) :
           /\ threads[i] # selectedThread
           /\ Handle(openThread(State, threads[i]), FALSE, FALSE, "openThread")

\* handleRefresh: setRefreshKey((prev) => prev + 1).  refreshKey is read by
\* nothing but the dependency list of the fetch effect, so only the fact that
\* it changed is kept.  The toolbar button is disabled while threadsLoading,
\* the button of the detail pane while no thread is open.
Refresh ==
    /\ ~ threadsLoading \/ selectedThread # NoThread
    /\ Handle(State, FALSE, TRUE, "handleRefresh")

FetchDone ==
    \E f \in fetches : \E data \in Responses(f) :
        Commit(settle(State, fetchSettled(State, f, data), ~ f.ignore,
                      FALSE, FALSE),
               IF f.ignore THEN "staleResponse"
               ELSE IF data.ok THEN "fetchSuccess" ELSE "fetchFailure")

\* The Archive and Trash buttons of the toolbar and of the detail pane.
BulkAction ==
    \E action \in { "archive", "delete" } :
        /\ Len(bulks) < MaxBulk
        /\ Handle(handleBulkAction(State, action, << >>), FALSE, FALSE,
                  "handleBulkAction")

\* The star button of a row of the thread list.
ToggleStar ==
    /\ ~ threadsLoading
    /\ Len(bulks) < MaxBulk
    /\ \E i \in 1 .. Len(threads) :
           Handle(handleToggleStar(State, threads[i], ~ threads[i].isStarred),
                  FALSE, FALSE, "handleToggleStar")

BulkDone ==
    \E i \in 1 .. Len(bulks) : \E ok \in BOOLEAN : \E dataError \in BulkErrors :
        Commit(settle(State, bulkSettled(State, i, ok, dataError), ok,
                      FALSE, FALSE),
               IF ok THEN "bulkSuccess" ELSE "bulkFailure")

Next ==
    \/ FolderSelect
    \/ SetSearchInput
    \/ FilterField
    \/ ApplyFilters
    \/ ClearFilters
    \/ SearchSubmit
    \/ ClearSearch
    \/ NextPage
    \/ PrevPage
    \/ ThreadSelect
    \/ ToggleSelectAll
    \/ OpenThread
    \/ Refresh
    \/ FetchDone

\* The query and cursor part of the session: no bulk action is taken.
Spec == Init /\ [][Next]_vars

\* The session after the mount and the typing of a text in the search box
\* (setSearchInput changes nothing else), the first fetch in flight.
InitLive ==
    \E m \in Mailboxes : \E text \in SearchInputs :
        LET r == settle(Mounted(m), Mounted(m), FALSE, FALSE, TRUE)
        IN  /\ mailbox = r.mailbox
            /\ activeFolder = r.activeFolder
            /\ threads = r.threads
            /\ threadsLoading = r.threadsLoading
            /\ threadsError = r.threadsError
            /\ selectedThread = r.selectedThread
            /\ searchInput = text
            /\ filterForm = r.filterForm
            /\ activeQuery = r.activeQuery
            /\ pageToken = r.pageToken
            /\ prevPageTokens = r.prevPageTokens
            /\ nextPageToken = r.nextPageToken
            /\ resultEstimate = r.resultEstimate
            /\ pageIndex = r.pageIndex
            /\ selectedIds = r.selectedIds
            /\ fetches = r.fetches
            /\ bulks = r.bulks
            /\ ComposeMounted
            /\ dispatched = << >>
            /\ responseNext = r.responseNext
            /\ lastOp = "setSearchInput"

\* The folder, query, page and refresh steps and the answers to the
\* fetches they start.
NextLive ==
    \/ FolderSelect
    \/ SearchSubmit
    \/ ClearSearch
    \/ NextPage
    \/ PrevPage
    \/ Refresh
    \/ FetchDone

\* That session when every request to the server is answered in the end:
\* the promise of a fetch in flight settles, so FetchDone does not stay
\* enabled for ever without being taken.
SpecLive == InitLive /\ [][NextLive]_vars /\ WF_vars(FetchDone)

\* The collection, the selection and the bulk executor: the steps that read
\* or write threads, selectedIds and selectedThread, on the first page of
\* the folder query.
NextBulk ==
    \/ FolderSelect
    \/ ClearSearch
    \/ ThreadSelect
    \/ ToggleSelectAll
    \/ OpenThread
    \/ Refresh
    \/ FetchDone
    \/ BulkAction
    \/ ToggleStar
    \/ BulkDone

SpecBulk == Init /\ [][NextBulk]_vars

\* data.messages of a page of three threads.
LongPage == << Th(1, FALSE), Th(2, TRUE), Th(3, FALSE) >>

\* The answer to a fetch is a page of three threads.
FetchDoneLong ==
    \E f \in fetches : \E n \in ServerNext(f) :
        LET data == [ ok |-> TRUE, messages |-> LongPage, nextPageToken |-> n,
                      resultSizeEstimate |-> 40, error |-> "" ]
        IN  Commit(settle(State, fetchSettled(State, f, data), ~ f.ignore,
                          FALSE, FALSE),
                   IF f.ignore THEN "staleResponse" ELSE "fetchSuccess")

\* The open thread and the removals: pages of up to three threads, the
\* rows, the check boxes, Archive and Trash and their answers.
NextOpen ==
    \/ ThreadSelect
    \/ OpenThread
    \/ Refresh
    \/ FetchDone
    \/ FetchDoneLong
    \/ BulkAction
    \/ BulkDone

SpecOpen == Init /\ [][NextOpen]_vars

\* The query builder and the commits: the session after the mount and the
\* typing of a free text and of a filter form (setSearchInput and
\* handleFilterField change nothing else), then the commits and clears of
\* the query and the answers to the fetches they start.
InitQuery ==
    \E m \in Mailboxes : \E text \in FreeTexts : \E form \in FilterForms :
        LET r == settle(Mounted(m), Mounted(m), FALSE, FALSE, TRUE)
        IN  /\ mailbox = r.mailbox
            /\ activeFolder = r.activeFolder
            /\ threads = r.threads
            /\ threadsLoading = r.threadsLoading
            /\ threadsError = r.threadsError
            /\ selectedThread = r.selectedThread
            /\ searchInput = text
            /\ filterForm = form
            /\ activeQuery = r.activeQuery
            /\ pageToken = r.pageToken
            /\ prevPageTokens = r.prevPageTokens
            /\ nextPageToken = r.nextPageToken
            /\ resultEstimate = r.resultEstimate
            /\ pageIndex = r.pageIndex
            /\ selectedIds = r.selectedIds
            /\ fetches = r.fetches
            /\ bulks = r.bulks
            /\ ComposeMounted
            /\ dispatched = << >>
            /\ responseNext = r.responseNext
            /\ lastOp = "handleFilterField"

NextQuery ==
    \/ ApplyFilters
    \/ ClearFilters
    \/ SearchSubmit
    \/ ClearSearch
    \/ FetchDone

SpecQuery == InitQuery /\ [][NextQuery]_vars

---------------------------------------------------------------------------
(* The compose dialog *)

\* What the user may type in the fields of the dialog.
ComposeValues ==
    [ to |-> { "", "c@x.com" }, cc |-> { "", "d@x.com" },
      bcc |-> { "" }, subject |-> { "", "hi" }, body |-> { "", "yo" } ]
Emojis == { "*" }
Files == { "f.txt" }                \* the files a file chooser returns
SendErrors == { "", "rejected" }    \* data.error of a send response not ok

ComposeState ==
    [ composeOpen |-> composeOpen, composeForm |-> composeForm,
      composeStatus |-> composeStatus ]

\* Faulty variant of openCompose: the dialog is shown as it was left.
openComposeAsLeft(c) == [ c EXCEPT !.composeOpen = TRUE ]

\* onClick of the Compose button
openCompose(c) ==
    [ composeOpen |-> TRUE, composeStatus |-> composeIdle,
      composeForm |-> buildComposeDefaults ]

closeCompose(c) ==
    [ composeOpen |-> FALSE, composeStatus |-> composeIdle,
      composeForm |-> buildComposeDefaults ]

handleComposeField(c, field, value) ==
    [ c EXCEPT !.composeForm = [ @ EXCEPT ![field] = value ],
               !.composeStatus = [ @ EXCEPT !.error = "", !.success = "" ] ]

handleEmojiSelect(c, emoji) ==
    [ c EXCEPT !.composeForm = [ @ EXCEPT !.body = @ \o emoji ] ]

\* The .then of handleAttachmentSelect, once the chosen files are read.
attachmentsRead(c, files) ==
    [ c EXCEPT !.composeForm = [ @ EXCEPT !.attachments = @ \o files ] ]

\* prev.attachments.filter((_, idx) => idx !== index); index counts from 1 here
handleRemoveAttachment(c, index) ==
    [ c EXCEPT !.composeForm =
          [ @ EXCEPT !.attachments =
                SubSeq(@, 1, index - 1) \o SubSeq(@, index + 1, Len(@)) ] ]

\* handleComposeSubmit up to its await, for the mailbox m.
handleComposeSubmit(c, m) ==
    IF m = "" THEN c
    ELSE [ c EXCEPT !.composeStatus =
                        [ loading |-> TRUE, error |-> "", success |-> "" ] ]

\* err.message || "Unable to send email.", where err is
\* new Error(data.error || "Unable to send email.")
sendErrorMessage(dataError) ==
    LET message == IF dataError # "" THEN dataError
                   ELSE "Unable to send email."
    IN  IF message # "" THEN message ELSE "Unable to send email."

\* Faulty variant of sendSettled: a sent draft is not reset.
sendSettledKeepDraft(c, ok, dataError) ==
    [ c EXCEPT !.composeStatus =
          IF ok THEN [ loading |-> FALSE, error |-> "",
                       success |-> "Message sent successfully." ]
          ELSE [ loading |-> FALSE, error |-> sendErrorMessage(dataError),
                 success |-> "" ] ]

\* handleComposeSubmit after its await: ok is response.ok, dataError is
\* data.error.  Nothing of the calling render is read any more.
sendSettled(c, ok, dataError) ==
    IF ok
    THEN [ c EXCEPT !.composeForm = buildComposeDefaults,
                    !.composeStatus =
                        [ loading |-> FALSE, error |-> "",
                          success |-> "Message sent successfully." ] ]
    ELSE [ c EXCEPT !.composeStatus =
                        [ loading |-> FALSE,
                          error |-> sendErrorMessage(dataError),
                          success |-> "" ] ]

\* The fields marked `required` are filled in (the browser refuses to
\* submit the form otherwise).
Submittable(form) == form.to # "" /\ form.subject # "" /\ form.body # ""

CommitCompose(c, op) ==
    /\ composeOpen' = c.composeOpen
    /\ composeForm' = c.composeForm
    /\ composeStatus' = c.composeStatus
    /\ dispatched' = << >>
    /\ lastOp' = op
    /\ UNCHANGED sessionVars

\* The Compose button lies under the backdrop of the open dialog.
OpenCompose ==
    /\ ~ composeOpen
    /\ composeSession < MaxSessions
    /\ composeSession' = composeSession + 1
    /\ CommitCompose(openCompose(ComposeState), "openCompose")
    /\ UNCHANGED << sends, reads >>

\* The close button, the Cancel button and the backdrop of the dialog.
CloseCompose ==
    /\ composeOpen
    /\ CommitCompose(closeCompose(ComposeState), "closeCompose")
    /\ UNCHANGED << sends, reads, composeSession >>

ComposeField ==
    /\ composeOpen
    /\ \E field \in DOMAIN ComposeValues : \E value \in ComposeValues[field] :
           /\ value # composeForm[field]
           /\ CommitCompose(handleComposeField(ComposeState, field, value),
                            "handleComposeField")
    /\ UNCHANGED << sends, reads, composeSession >>

EmojiSelect ==
    /\ composeOpen
    /\ Len(composeForm.body) < MaxBody
    /\ \E emoji \in Emojis :
           CommitCompose(handleEmojiSelect(ComposeState, emoji),
                         "handleEmojiSelect")
    /\ UNCHANGED << sends, reads, composeSession >>

\* handleAttachmentSelect up to Promise.all: the files are being read.
AttachmentSelect ==
    /\ composeOpen
    /\ reads + Len(composeForm.attachments) < MaxAttachments
    /\ reads' = reads + 1
    /\ CommitCompose(ComposeState, "handleAttachmentSelect")
    /\ UNCHANGED << sends, composeSession >>

AttachmentsRead ==
    /\ reads > 0
    /\ reads' = reads - 1
    /\ \E file \in Files :
           CommitCompose(attachmentsRead(ComposeState, << file >>),
                         "attachmentsRead")
    /\ UNCHANGED << sends, composeSession >>

RemoveAttachment ==
    /\ composeOpen
    /\ \E index \in 1 .. Len(composeForm.attachments) :
           CommitCompose(handleRemoveAttachment(ComposeState, index),
                         "handleRemoveAttachment")
    /\ UNCHANGED << sends, reads, composeSession >>

\* The Send button is disabled while composeStatus.loading.
ComposeSubmit ==
    /\ composeOpen
    /\ ~ composeStatus.loading
    /\ Submittable(composeForm)
    /\ Len(sends) < MaxSends
    /\ sends' = IF mailbox = "" THEN sends ELSE Append(sends, composeSession)
    /\ CommitCompose(handleComposeSubmit(ComposeState, mailbox),
                     "handleComposeSubmit")
    /\ UNCHANGED << reads, composeSession >>

SendDone ==
    \E i \in 1 .. Len(sends) : \E ok \in BOOLEAN : \E dataError \in SendErrors :
        /\ sends' = dropBulk(sends, i)
        /\ CommitCompose(sendSettled(ComposeState, ok, dataError),
                         IF ok THEN "sendSuccess" ELSE "sendFailure")
        /\ UNCHANGED << reads, composeSession >>

NextCompose ==
    \/ OpenCompose
    \/ CloseCompose
    \/ ComposeField
    \/ EmojiSelect
    \/ AttachmentSelect
    \/ AttachmentsRead
    \/ RemoveAttachment
    \/ ComposeSubmit
    \/ SendDone

\* The parent renders the component with another mailbox.
SwitchMailbox ==
    \E m \in (Mailboxes \cup OtherMailboxes) \ { mailbox } :
        Handle([ State EXCEPT !.mailbox = m ], FALSE, FALSE, "mailboxChange")

NextMailbox ==
    \/ Next
    \/ SwitchMailbox

\* The query and cursor part of the session under changes of the mailbox.
SpecMailbox == Init /\ [][NextMailbox]_vars

\* The compose dialog on its own: the session stays as the mount left it.
SpecCompose == Init /\ [][NextCompose]_vars

---------------------------------------------------------------------------
(* Properties *)

Authoritative == { f \in fetches : ~ f.ignore }

CursorInitial ==
    /\ pageToken = Null
    /\ prevPageTokens = << >>
    /\ nextPageToken = Null
    /\ pageIndex = 0

\* C1 (stale-response discard): the response of a superseded thread fetch,
\* success or failure, changes none of threads, selectedIds, nextPageToken,
\* resultEstimate, threadsError, threadsLoading; and in every state at most
\* one fetch in flight is authoritative: it is the request for the current
\* mailbox, folder, committed query and cursor, and it is in flight exactly
\* while threadsLoading.
StaleResponseDiscarded ==
    /\ [](/\ Cardinality(Authoritative) <= 1
          /\ \A f \in Authoritative : f = Request(State)
          /\ threadsLoading <=> Authoritative # { })
    /\ [][lastOp' = "staleResponse" =>
            UNCHANGED << threads, selectedIds, nextPageToken, resultEstimate,
                         threadsError, threadsLoading, selectedThread >>]_vars

\* A superseded response arrives after the fetch of the folder switched to
\* has been answered and its page is shown.
StaleResponseAfterNewer ==
    /\ lastOp = "staleResponse"
    /\ activeFolder = "sent"
    /\ ~ threadsLoading
    /\ Len(threads) > 0

\* C2 (folder switch resets everything): a handleFolderSelect(f) with f other
\* than the active folder leaves, once its effects have run, activeQuery "",
\* the cursor initial, selectedIds empty, the thread list empty and no open
\* thread, whatever the state before.
FolderSwitchResets ==
    [][(lastOp' = "handleFolderSelect" /\ activeFolder' # activeFolder) =>
          /\ activeQuery' = ""
          /\ CursorInitial'
          /\ selectedIds' = << >>
          /\ threads' = << >>
          /\ selectedThread' = NoThread]_vars

\* A folder switch from a session that had a committed query or a page
\* cursor: the fetch effect ran twice, before and after the reset.
FolderSwitchFromDirtySession ==
    /\ lastOp = "handleFolderSelect"
    /\ Len(dispatched) = 2
    /\ activeFolder = "sent"

\* The handlers that commit a query, and the query each one commits.
CommitOps ==
    { "handleSearchSubmit", "handleApplyFilters", "clearSearch",
      "handleClearFilters" }

CommittedQuery(op) ==
    IF op \in { "clearSearch", "handleClearFilters" } THEN ""
    ELSE buildSearchQuery(searchInput, filterForm)

\* C3 (commit of an unchanged query is a no-op): a handleSearchSubmit or
\* handleApplyFilters whose built query equals activeQuery dispatches no
\* fetch and leaves pageToken, prevPageTokens, nextPageToken, pageIndex,
\* resultEstimate, selectedIds and threads unchanged.
SameQueryCommitIsNoOp ==
    [][(/\ lastOp' \in { "handleSearchSubmit", "handleApplyFilters" }
        /\ buildSearchQuery(searchInput, filterForm) = activeQuery) =>
          /\ dispatched' = << >>
          /\ UNCHANGED << pageToken, prevPageTokens, nextPageToken, pageIndex,
                          resultEstimate, selectedIds, threads >>]_vars

\* C4 (commit of a new query): a commit of a query q other than activeQuery
\* sets activeQuery to q, makes the cursor initial, empties selectedIds and
\* dispatches one fetch, for the active folder with q and no cursor; and the
\* cursor (pageToken, prevPageTokens, pageIndex, and nextPageToken apart from
\* its update by a fetch response) is changed by nothing but page navigation,
\* such a commit and a folder switch.
NewQueryCommitAndCursorOwners ==
    [][LET q == CommittedQuery(lastOp')
           reset == \/ lastOp' \in CommitOps /\ q # activeQuery
                    \/ lastOp' = "handleFolderSelect"
                         /\ activeFolder' # activeFolder
           navigation == lastOp' \in { "goToNextPage", "goToPrevPage" }
       IN  /\ (lastOp' \in CommitOps /\ q # activeQuery) =>
                 /\ activeQuery' = q
                 /\ CursorInitial'
                 /\ selectedIds' = << >>
                 /\ dispatched' =
                        << [ mailbox |-> mailbox, folder |-> activeFolder,
                             query |-> q, pageToken |-> Null,
                             ignore |-> FALSE ] >>
           /\ << pageToken, prevPageTokens, pageIndex >>'
                  # << pageToken, prevPageTokens, pageIndex >>
              => (navigation \/ reset)
           /\ nextPageToken' # nextPageToken
              => (navigation \/ reset \/ lastOp' = "fetchSuccess")]_vars

\* C5 (history exactness): against the server's chain of cursors
\* null -> 1 -> 2 ..., on page k+1 pageToken is the k-th cursor and
\* prevPageTokens is << null, 1, ..., k-1 >>: exactly the cursors of the
\* pages before, in order, none twice.
HistoryExact ==
    /\ pageToken = Len(prevPageTokens)
    /\ \A i \in 1 .. Len(prevPageTokens) : prevPageTokens[i] = i - 1

\* C6 (advance needs a populated next): while nextPageToken is null, or the
\* fetch of the current page is in flight or has failed, goToNextPage changes
\* none of pageToken, prevPageTokens, pageIndex and dispatches no fetch.
NextPageNeedsPopulatedNext ==
    [][(/\ lastOp' = "goToNextPage"
        /\ (nextPageToken = Null \/ threadsLoading \/ threadsError # "")) =>
          /\ UNCHANGED << pageToken, prevPageTokens, pageIndex >>
          /\ dispatched' = << >>]_vars

\* The state after the handler h and the renders it causes.
After(s, h) == settle(s, h, FALSE, FALSE, FALSE)

\* C7 (cursor stack round trip): from every reachable state, a goToPrevPage
\* right after an effective goToNextPage gives back the pageToken and the
\* prevPageTokens from before the advance; and with an empty history
\* goToPrevPage changes nothing and dispatches no fetch.
CursorRoundTrip ==
    LET advanced == After(State, goToNextPage(State))
        returned == After(advanced, goToPrevPage(advanced))
    IN  /\ nextPageToken # Null =>
              /\ advanced.prevPageTokens = Append(prevPageTokens, pageToken)
              /\ returned.pageToken = pageToken
              /\ returned.prevPageTokens = prevPageTokens
        /\ prevPageTokens = << >> =>
              After(State, goToPrevPage(State)) = State

\* goToPrevPage has taken the session back to the first page, on which the
\* next cursor of the earlier advance is still held.
BackOnFirstPage ==
    /\ lastOp = "goToPrevPage"
    /\ Len(dispatched) = 1
    /\ pageToken = Null
    /\ prevPageTokens = << >>
    /\ nextPageToken # Null

ResetOps == CommitOps

\* C8 (page index lockstep): pageIndex is never negative and always the
\* length of prevPageTokens; an effective goToNextPage adds 1, an effective
\* goToPrevPage subtracts 1, every reset sets it to 0, nothing else changes it.
PageIndexLockstep ==
    /\ [](pageIndex >= 0 /\ pageIndex = Len(prevPageTokens))
    /\ [][LET switch == lastOp' = "handleFolderSelect"
                            /\ activeFolder' # activeFolder
          IN  /\ (lastOp' = "goToNextPage" /\ nextPageToken # Null)
                    => pageIndex' = pageIndex + 1
              /\ (lastOp' = "goToPrevPage" /\ prevPageTokens # << >>)
                    => pageIndex' = pageIndex - 1
              /\ (lastOp' \in ResetOps \/ switch) => pageIndex' = 0
              /\ pageIndex' # pageIndex =>
                    \/ lastOp' \in { "goToNextPage", "goToPrevPage" }
                    \/ lastOp' \in ResetOps
                    \/ switch]_vars

\* An effective goToPrevPage from the second page.
SteppedBack ==
    /\ lastOp = "goToPrevPage"
    /\ Len(dispatched) = 1
    /\ pageIndex = 0
    /\ threadsLoading

Ready == ~ threadsLoading /\ threadsError = "" /\ Authoritative = { }

\* C9 (null next means last page): in every Ready state, nextPageToken is
\* null only if the response the shown page came from carried no next cursor.
NullNextMeansLastPage ==
    (Ready /\ nextPageToken = Null) => responseNext = Null

\* C10 (fetch failure): after the failure of the authoritative fetch the
\* thread list is empty, threadsError is not empty, threadsLoading is false,
\* selectedIds is empty and no thread is open.
FetchFailureClearsAll ==
    lastOp = "fetchFailure" =>
        /\ threads = << >>
        /\ threadsError # ""
        /\ ~ threadsLoading
        /\ selectedIds = << >>
        /\ selectedThread = NoThread

---------------------------------------------------------------------------
(* Collection, selection and bulk executor *)

\* The page, the next cursor and the estimate of an ok response to the
\* authoritative fetch are what the state holds after the step.
PageOfResponseShown ==
    \E f \in Authoritative : \E data \in Responses(f) :
        /\ data.ok
        /\ threads' = data.messages
        /\ selectedIds' = << >>
        /\ nextPageToken' = data.nextPageToken
        /\ responseNext' = data.nextPageToken
        /\ resultEstimate' = data.resultSizeEstimate
        /\ ~ threadsLoading'

\* C11 as stated (fetch success): after the success of the authoritative
\* fetch threads is the returned page, selectedIds is empty, nextPageToken
\* and resultEstimate are the returned ones, threadsLoading is false and
\* the session is Ready.
FetchSuccessReady ==
    [][lastOp' = "fetchSuccess" => (PageOfResponseShown /\ Ready')]_vars

\* C11 (fetch success, amended): after the success of the authoritative
\* fetch threads is the returned page, selectedIds is empty, nextPageToken
\* and resultEstimate are the returned ones and threadsLoading is false;
\* threadsError is left as it was, so the session is Ready exactly when no
\* bulk failure was reported while the fetch was in flight.
FetchSuccessKeepsError ==
    [][lastOp' = "fetchSuccess" =>
          /\ PageOfResponseShown
          /\ threadsError' = threadsError
          /\ Ready' <=> threadsError = ""]_vars

\* A page arrives while the message of a failed bulk action is shown.
FetchSuccessUnderBulkError ==
    /\ lastOp = "fetchSuccess"
    /\ threads # << >>
    /\ threadsError = "Failed to delete messages."
    /\ ~ threadsLoading

\* The open thread of the state s is null or has the id of a thread of s.threads.
OpenIn(s) ==
    \/ s.selectedThread = NoThread
    \/ \E i \in 1 .. Len(s.threads) : s.threads[i].id = s.selectedThread.id

\* C12 (open-thread invariant): in every settled state selectedThread is
\* null or has the id of a thread of threads; and from every such state the
\* query commits and the page changes lead to a settled state of which the
\* same is true.
OpenThreadInCollection ==
    /\ OpenIn(State)
    /\ \A h \in { goToNextPage(State), goToPrevPage(State),
                   handleApplyFilters(State), handleSearchSubmit(State),
                   handleClearFilters(State), clearSearch(State) } :
           OpenIn(After(State, h))

\* A bulk removal has answered and the thread that is left, starred before
\* by a star toggle, is the open one.
OpenThreadAfterRemoval ==
    /\ lastOp = "bulkSuccess"
    /\ threads = << Th(1, TRUE) >>
    /\ selectedThread = Th(1, TRUE)

\* C13 (re-derivation on replace): when a fetched page replaces threads,
\* the open thread becomes the thread of the new list with the id of the
\* open one if there is one; else the first thread of the new list; else
\* null.
OpenThreadRederived ==
    [][lastOp' = "fetchSuccess" =>
          LET same == { i \in 1 .. Len(threads') :
                          /\ selectedThread # NoThread
                          /\ threads'[i].id = selectedThread.id }
          IN  IF same # { }
              THEN /\ selectedThread'.id = selectedThread.id
                   /\ \E i \in same : selectedThread' = threads'[i]
              ELSE IF threads' # << >>
              THEN selectedThread' = threads'[1]
              ELSE selectedThread' = NoThread]_vars

\* The page that arrived holds the open thread in second place, and it is
\* still the open one.
OpenThreadKeptById ==
    /\ lastOp = "fetchSuccess"
    /\ Len(threads) = 2
    /\ selectedThread = threads[2]

\* The step answers the i-th bulk request in flight.
Answers(i) == i \in 1 .. Len(bulks) /\ bulks' = dropBulk(bulks, i)

Removals == { "archive", "delete" }

\* C14 (bulk archive/delete removes targets): after a successful archive or
\* delete on the targets T, threads is the previous list without the
\* threads of T, selectedIds holds no id of T, and if the open thread was
\* in T no thread is open.
BulkRemovalClosesOpenThread ==
    [][lastOp' = "bulkSuccess" =>
          \A i \in 1 .. Len(bulks) :
              (Answers(i) /\ bulks[i].action \in Removals) =>
                  LET T == bulks[i].targets
                  IN  /\ threads' =
                            SelectSeq(threads,
                                      LAMBDA th : ~ includes(T, th.id))
                      /\ \A j \in 1 .. Len(selectedIds') :
                             ~ includes(T, selectedIds'[j])
                      /\ includes(T, selectedThread.id) =>
                             selectedThread' = NoThread]_vars

\* C15 (bulk failure consistency): sending a bulk request changes nothing
\* of the view, and the failure of a bulk request (archive, delete, star or
\* unstar) leaves threads, selectedIds and the open thread as they were and
\* puts a non-empty message in threadsError.
BulkFailureLeavesView ==
    [][/\ lastOp' \in { "handleBulkAction", "handleToggleStar" } =>
              UNCHANGED << threads, selectedIds, selectedThread,
                           threadsError >>
       /\ lastOp' = "bulkFailure" =>
              /\ UNCHANGED << threads, selectedIds, selectedThread >>
              /\ threadsError' # ""
              /\ \E i \in 1 .. Len(bulks) : Answers(i)]_vars

\* A star toggle has failed: the thread is shown as before, with the message.
StarFailureShown ==
    /\ lastOp = "bulkFailure"
    /\ threadsError = "Failed to star messages."
    /\ threads = << Th(1, FALSE), Th(2, TRUE) >>
    /\ selectedThread = Th(1, FALSE)

\* C16 (bulk target resolution): a bulk action without explicit targets is
\* sent for selectedIds when it is not empty, else for the id of the open
\* thread; with neither, or without a mailbox, nothing is sent and nothing
\* of the state changes.
BulkTargetsResolved ==
    /\ [][lastOp' = "handleBulkAction" =>
              LET T == IF selectedIds # << >> THEN selectedIds
                       ELSE IF selectedThread # NoThread
                            THEN << selectedThread.id >>
                            ELSE << >>
              IN  /\ UNCHANGED << mailbox, activeFolder, threads,
                                  threadsLoading, threadsError,
                                  selectedThread, searchInput, filterForm,
                                  activeQuery, pageToken, prevPageTokens,
                                  nextPageToken, resultEstimate, pageIndex,
                                  selectedIds, fetches >>
                  /\ dispatched' = << >>
                  /\ IF T = << >> THEN bulks' = bulks
                     ELSE /\ Len(bulks') = Len(bulks) + 1
                          /\ SubSeq(bulks', 1, Len(bulks)) = bulks
                          /\ bulks'[Len(bulks')].targets = T
                          /\ bulks'[Len(bulks')].action \in Removals]_vars
    /\ [](\A action \in Removals :
             LET idle == [ State EXCEPT !.mailbox = "" ]
             IN  handleBulkAction(idle, action, << >>) = idle)

\* Archive or Trash was asked for with no selection and no open thread.
BulkWithoutTargets ==
    /\ lastOp = "handleBulkAction"
    /\ selectedIds = << >>
    /\ selectedThread = NoThread
    /\ bulks = << >>

\* The settled state after an ok answer to `action` on `targets`, sent from
\* and answered in the state s.
AfterBulk(s, action, targets) ==
    LET sent == handleBulkAction([ s EXCEPT !.bulks = << >> ], action, targets)
    IN  settle(sent, bulkSettled(sent, 1, TRUE, ""), TRUE, FALSE, FALSE)

\* r is s with the starred flag set to v on exactly the threads of T.
StarredIn(s, r, T, v) ==
    /\ Len(r.threads) = Len(s.threads)
    /\ \A i \in 1 .. Len(s.threads) :
           /\ r.threads[i].id = s.threads[i].id
           /\ r.threads[i].isStarred =
                  IF includes(T, s.threads[i].id) THEN v
                  ELSE s.threads[i].isStarred
    /\ r.selectedThread.id = s.selectedThread.id
    /\ r.selectedThread.isStarred =
           IF s.selectedThread # NoThread /\ includes(T, s.selectedThread.id)
           THEN v ELSE s.selectedThread.isStarred
    /\ r.selectedIds = s.selectedIds
    /\ r.pageToken = s.pageToken
    /\ r.prevPageTokens = s.prevPageTokens
    /\ r.nextPageToken = s.nextPageToken
    /\ r.pageIndex = s.pageIndex

TargetSets == { << 1 >>, << 2 >>, << 1, 2 >>, << 2, 3 >> }

\* C17 (star/unstar patch in place): a successful star (unstar) on the
\* targets T sets the starred flag to true (false) on exactly the threads
\* of T, the open thread included, and leaves the membership and order of
\* threads, the other threads, selectedIds and the cursor as they were;
\* the star button of a row is this operation with T = << id >>.
StarPatchInPlace ==
    /\ [][lastOp' = "bulkSuccess" =>
              \A i \in 1 .. Len(bulks) :
                  (Answers(i) /\ bulks[i].action \notin Removals) =>
                      StarredIn(State, [ State EXCEPT
                                           !.threads = threads',
                                           !.selectedThread = selectedThread',
                                           !.selectedIds = selectedIds',
                                           !.pageToken = pageToken',
                                           !.prevPageTokens = prevPageTokens',
                                           !.nextPageToken = nextPageToken',
                                           !.pageIndex = pageIndex' ],
                                bulks[i].targets, bulks[i].action = "star")]_vars
    /\ [](\A T \in TargetSets : \A v \in BOOLEAN :
             StarredIn(State,
                       AfterBulk(State, IF v THEN "star" ELSE "unstar", T),
                       T, v))
    /\ [](\A i \in 1 .. Len(threads) : \A v \in BOOLEAN :
             handleToggleStar(State, threads[i], v).bulks =
                 Append(bulks, [ action |-> IF v THEN "star" ELSE "unstar",
                                 targets |-> << threads[i].id >>,
                                 openIsTarget |->
                                     selectedThread.id = threads[i].id ]))

\* The star toggle of the open thread, the first of two, has been answered.
OpenThreadStarred ==
    /\ lastOp = "bulkSuccess"
    /\ threads = << Th(1, TRUE), Th(2, TRUE) >>
    /\ selectedThread = Th(1, TRUE)

\* selectedIds and the ids of the loaded threads, as sets
Selection(s) == { s.selectedIds[i] : i \in 1 .. Len(s.selectedIds) }
Loaded(s) == { s.threads[i].id : i \in 1 .. Len(s.threads) }

\* C18 as stated (selection scoping): from every selection, empty, partial
\* or full, two calls of handleToggleSelectAll in a row give the original
\* selection back.
ToggleTwiceRestores ==
    Selection(handleToggleSelectAll(handleToggleSelectAll(State)))
        = Selection(State)

\* C18 (selection scoping, amended): a call of handleToggleSelectAll clears
\* the selection if as many ids are selected as threads are loaded, else
\* selects exactly the ids of the loaded threads, in their order, and does
\* nothing when no thread is loaded; two calls in a row give the original
\* selection back from the empty and from the full selection, and the
\* empty selection from a partial one.
ToggleSelectAllScoped ==
    /\ [][lastOp' = "handleToggleSelectAll" =>
              /\ selectedIds' =
                     IF threads = << >> THEN selectedIds
                     ELSE IF Len(selectedIds) = Len(threads) THEN << >>
                     ELSE [ i \in 1 .. Len(threads) |-> threads[i].id ]
              /\ UNCHANGED << threads, selectedThread, fetches >>]_vars
    /\ [](LET twice == handleToggleSelectAll(handleToggleSelectAll(State))
          IN  /\ Selection(State) \in { { }, Loaded(State) } =>
                     Selection(twice) = Selection(State)
              /\ (threads # << >> /\ Selection(State) \notin
                                        { { }, Loaded(State) }) =>
                     Selection(twice) = { })

\* handleToggleSelectAll has cleared the selection of a page of two threads.
ToggledBackToEmpty ==
    /\ lastOp = "handleToggleSelectAll"
    /\ Len(threads) = 2
    /\ selectedIds = << >>

---------------------------------------------------------------------------
(* Query builder *)

\* The eight places of a query, in their order: whether the source of each
\* is present, and the token it gives.  The dates are days of 86400
\* seconds: after: is the first second of dateStart, before: the last
\* second of dateEnd.
Places(text, form) ==
    << [ on |-> trim(text) # "", token |-> trim(text) ],
       [ on |-> form.from # "", token |-> "from:" \o form.from ],
       [ on |-> form.to # "", token |-> "to:" \o form.to ],
       [ on |-> form.subject # "", token |-> "subject:" \o form.subject ],
       [ on |-> form.dateStart # "",
         token |-> "after:" \o ToString(DayNumber(form.dateStart) * 86400) ],
       [ on |-> form.dateEnd # "",
         token |-> "before:"
                      \o ToString(DayNumber(form.dateEnd) * 86400 + 86399) ],
       [ on |-> form.hasAttachment, token |-> "has:attachment" ],
       [ on |-> form.folder # "", token |-> folderQueryMap(form.folder) ] >>

\* The tokens of the places that are present, joined by single spaces.
RECURSIVE Joined(_)
Joined(places) ==
    IF places = << >> THEN ""
    ELSE LET rest == Joined(Tail(places))
         IN  IF ~ places[1].on THEN rest
             ELSE IF rest = "" THEN places[1].token
             ELSE places[1].token \o " " \o rest

\* The string ends with a blank.
EndsBlank(s) == Len(s) > 0 /\ SubSeq(s, Len(s), Len(s)) = " "

\* C19 as stated (query builder result): for every free text and filter
\* form buildSearchQuery returns the single-space join of the tokens that
\* are present, in the fixed order.
QueryIsJoinOfTokens ==
    buildSearchQuery(searchInput, filterForm)
        = Joined(Places(searchInput, filterForm))

\* C19 (query builder result, amended): buildSearchQuery returns the
\* single-space join of the tokens that are present, in the fixed order,
\* without the blanks at its end: it is the join itself unless the last
\* token comes from a field whose value ends with a blank.  Both date
\* tokens are there when dateStart is after dateEnd, the folder token is
\* that of the filter's folder, and handleSearchSubmit and
\* handleApplyFilters make this string the active query.
QueryIsTrimmedJoinOfTokens ==
    /\ [](LET joined == Joined(Places(searchInput, filterForm))
              query == buildSearchQuery(searchInput, filterForm)
          IN  /\ query = trimEnd(joined)
              /\ ~ EndsBlank(joined) => query = joined)
    /\ [][lastOp' \in { "handleSearchSubmit", "handleApplyFilters" } =>
              activeQuery' = trimEnd(Joined(Places(searchInput, filterForm)))]_vars

\* A commit with every place present, dateStart after dateEnd and a filter
\* folder that is not the active one.
FullQueryCommitted ==
    /\ lastOp = "handleSearchSubmit"
    /\ activeFolder = "inbox"
    /\ filterForm.dateStart = "1970-01-03"
    /\ filterForm.dateEnd = "1970-01-02"
    /\ activeQuery = "inv from:a@x.com to:b@x.com subject:hi  after:172800"
                         \o " before:172799 has:attachment is:starred"

\* C20 (clearQuery equivalence): clearSearch leaves the session as a commit
\* of the empty text with the empty filter form would: activeQuery is "",
\* the cursor is initial, the selection, the free text and every field of
\* the filter form are empty, so that the query built next is "" again.
ClearSearchIsEmptyCommit ==
    [][lastOp' = "clearSearch" =>
          /\ activeQuery' = ""
          /\ CursorInitial'
          /\ selectedIds' = << >>
          /\ searchInput' = ""
          /\ filterForm' = filterDefaults
          /\ buildSearchQuery(searchInput', filterForm') = ""]_vars

---------------------------------------------------------------------------
(* Compose *)

Sending == [ loading |-> TRUE, error |-> "", success |-> "" ]

\* A submit of the open dialog puts it in Sending and sends the draft.
SubmitStartsSending ==
    lastOp' = "handleComposeSubmit" =>
        /\ composeOpen /\ composeOpen'
        /\ composeStatus' = Sending
        /\ composeForm' = composeForm
        /\ sends' = Append(sends, composeSession)

\* C21 as stated (compose success path): a submit moves the open dialog to
\* Sending, and after the success of a send composeOpen is false and the
\* draft is empty.
SendSuccessCloses ==
    [][/\ SubmitStartsSending
       /\ lastOp' = "sendSuccess" =>
              /\ ~ composeOpen'
              /\ composeForm' = buildComposeDefaults]_vars

\* C21 (compose success path, amended): a submit moves the open dialog to
\* Sending (loading true, error and success empty); the success of a send
\* empties the draft and sets composeStatus to not loading, no error and
\* the success message, and leaves composeOpen as it is: the dialog stays
\* open until it is closed.
SendSuccessResetsDraft ==
    [][/\ SubmitStartsSending
       /\ lastOp' = "sendSuccess" =>
              /\ composeOpen' = composeOpen
              /\ composeForm' = buildComposeDefaults
              /\ composeStatus' = [ loading |-> FALSE, error |-> "",
                                    success |-> "Message sent successfully." ]]_vars

\* The send of the open dialog has succeeded: the dialog is still open,
\* with an empty draft and the success message.
SentAndStillOpen ==
    /\ lastOp = "sendSuccess"
    /\ composeOpen
    /\ sends = << >>
    /\ composeForm = buildComposeDefaults
    /\ composeStatus.success = "Message sent successfully."

EditOps ==
    { "handleComposeField", "handleEmojiSelect", "attachmentsRead",
      "handleRemoveAttachment" }

DiscardOps == { "openCompose", "closeCompose", "sendSuccess" }

\* C22 (compose failure and discard): the failure of a send leaves the
\* draft and composeOpen as they are, with loading false and a non-empty
\* error; the draft changes only by an edit of the user or by being
\* emptied, and it is emptied, other than by the user's edits, only by
\* opening Compose, by closing it and by the success of a send; every
\* opening of Compose gives an empty draft and no error.
SendFailureKeepsDraft ==
    [][/\ lastOp' = "sendFailure" =>
              /\ composeForm' = composeForm
              /\ composeOpen' = composeOpen
              /\ ~ composeStatus'.loading
              /\ composeStatus'.error # ""
              /\ composeStatus'.success = ""
       /\ composeForm' # composeForm =>
              \/ lastOp' \in EditOps
              \/ lastOp' \in DiscardOps /\ composeForm' = buildComposeDefaults
       /\ lastOp' \in { "closeCompose", "sendSuccess" } =>
              composeForm' = buildComposeDefaults
       /\ lastOp' = "openCompose" =>
              /\ composeOpen'
              /\ composeForm' = buildComposeDefaults
              /\ composeStatus' = composeIdle]_vars

\* The send of the open dialog has failed: the draft is there, with the error.
SendFailedDraftKept ==
    /\ lastOp = "sendFailure"
    /\ composeOpen
    /\ sends = << >>
    /\ Submittable(composeForm)
    /\ composeStatus = [ loading |-> FALSE, error |-> "rejected",
                         success |-> "" ]

\* C30 (a send completion affects only its own compose session): the
\* answer to a send of an earlier opening of Compose changes neither the
\* draft nor the status of the dialog that is open now.
SendAnswerOnlyForItsSession ==
    [][lastOp' \in { "sendSuccess", "sendFailure" } =>
          \A i \in 1 .. Len(sends) :
              (sends' = dropBulk(sends, i) /\ sends[i] # composeSession
                   /\ composeOpen) =>
                  UNCHANGED << composeForm, composeStatus >>]_vars

---------------------------------------------------------------------------
(* Mailbox change *)

\* C23 (mailbox change): after the mailbox prop has changed and the effects
\* have settled, activeFolder is the first folder, activeQuery is "", the
\* cursor is initial, selectedIds is empty, no thread is listed or open,
\* and the only fetch that is not superseded is the one for the new
\* mailbox, the first folder, no query and no cursor; at any time a fetch
\* that is not superseded is one for the current mailbox.
MailboxChangeStartsAfresh ==
    /\ [][lastOp' = "mailboxChange" =>
              /\ mailbox' # mailbox
              /\ activeFolder' = folderDefinitions[1]
              /\ activeQuery' = "" /\ searchInput' = ""
              /\ CursorInitial'
              /\ selectedIds' = << >>
              /\ threads' = << >> /\ selectedThread' = NoThread
              /\ threadsLoading' /\ threadsError' = ""
              /\ { f \in fetches' : ~ f.ignore } =
                     { [ mailbox |-> mailbox', folder |-> folderDefinitions[1],
                         query |-> "", pageToken |-> Null, ignore |-> FALSE ] }]_vars
    /\ [](\A f \in Authoritative : f.mailbox = mailbox)

\* The mailbox changed while a search in another folder was shown: two
\* requests were sent and the first is superseded.
MailboxChangedInDirtySession ==
    /\ lastOp = "mailboxChange"
    /\ mailbox = "b@x.com"
    /\ Len(dispatched) = 2
    /\ dispatched[1].folder = "sent"
    /\ dispatched[1].query # ""

---------------------------------------------------------------------------
(* Errors and retries *)

\* The messages of failed bulk actions that no failed fetch can give.
BulkMessages ==
    { bulkErrorMessage(action, "") :
          action \in { "archive", "delete", "star", "unstar" } }

\* Every step that sends a thread fetch leaves threadsError empty.
FetchDispatchClearsError ==
    [][dispatched' # << >> => threadsError' = ""]_vars

\* C24 (errors are cleared on retry): every step that sends a thread fetch
\* leaves threadsError empty, and after the success of a bulk action no
\* message of a failed bulk action is shown.
ErrorsClearedOnRetry ==
    [][/\ dispatched' # << >> => threadsError' = ""
       /\ lastOp' = "bulkSuccess" => threadsError' \notin BulkMessages]_vars

\* The list ts with the patch of the bulk request b.
Patched(ts, b) ==
    IF b.action \in Removals
    THEN SelectSeq(ts, LAMBDA th : ~ includes(b.targets, th.id))
    ELSE [ i \in 1 .. Len(ts) |->
             IF includes(b.targets, ts[i].id)
             THEN [ ts[i] EXCEPT !.isStarred = (b.action = "star") ]
             ELSE ts[i] ]

\* The step sends a bulk request.
SendsBulk ==
    /\ lastOp' \in { "handleBulkAction", "handleToggleStar" }
    /\ Len(bulks') = Len(bulks) + 1

SwitchesFolder ==
    lastOp' = "handleFolderSelect" /\ activeFolder' # activeFolder

\* C26 (fetch after reset on folder switch): every request sent by a
\* switch to another folder is for the new folder with an empty query and
\* no page cursor.
FolderSwitchFetchesAfterReset ==
    [][SwitchesFolder =>
           \A i \in 1 .. Len(dispatched') :
               /\ dispatched'[i].folder = activeFolder'
               /\ dispatched'[i].query = ""
               /\ dispatched'[i].pageToken = Null]_vars

---------------------------------------------------------------------------
(* Selection and the displayed page *)

\* Every selected id is the id of a listed thread.
SelectionListed ==
    \A i \in 1 .. Len(selectedIds) : includes(ids(threads), selectedIds[i])

\* C28 (selection stays inside the page): in every state every id in
\* selectedIds is the id of a thread of threads, and every bulk request is
\* sent for ids of listed threads only.
SelectionInsidePage ==
    /\ []SelectionListed
    /\ [][SendsBulk =>
             \A i \in 1 .. Len(bulks'[Len(bulks')].targets) :
                 includes(ids(threads),
                          bulks'[Len(bulks')].targets[i])]_vars

---------------------------------------------------------------------------
(* The open thread and the answer to a removal *)

\* C29 (bulk completion and an unrelated open thread): in the step in
\* which the answer to an archive or delete arrives, if the thread open at
\* that moment is not among the targets of the request it is still the
\* open thread after the step.
BulkAnswerKeepsUnrelatedOpenThread ==
    [][lastOp' \in { "bulkSuccess", "bulkFailure" } =>
           \A i \in 1 .. Len(bulks) :
               ( /\ Answers(i)
                 /\ bulks[i].action \in Removals
                 /\ ~ includes(bulks[i].targets, selectedThread.id) )
               => selectedThread' = selectedThread]_vars

---------------------------------------------------------------------------
(* Loading resolves *)

\* The step is the arrival of an answer to a thread fetch.
AnswerArrives ==
    lastOp' \in { "fetchSuccess", "fetchFailure", "staleResponse" }

\* No fetch is awaited and the view shows a page or an error.
Resolved ==
    /\ ~ threadsLoading
    /\ Authoritative = { }
    /\ \/ Ready
       \/ threadsError # "" /\ threads = << >>

\* C27 (loading always resolves): threadsLoading is true only while an
\* authoritative fetch is in flight; the answer to it shows its page and
\* leaves the session Ready, or leaves an error; and when every fetch is
\* answered in the end and from some point on the user starts nothing
\* new, the session ends, and stays, not loading and Ready or in error.
LoadingResolves ==
    /\ [](threadsLoading => Authoritative # { })
    /\ [][/\ lastOp' = "fetchSuccess" => PageOfResponseShown /\ Ready'
          /\ lastOp' = "fetchFailure" => Resolved' /\ threadsError' # ""]_vars
    /\ (<>[][AnswerArrives]_vars) => <>[]Resolved

\* The second page of a folder has arrived after the spinner of the step
\* to it.
SecondPageResolved ==
    /\ lastOp = "fetchSuccess"
    /\ pageIndex = 1
    /\ Resolved
    /\ threads # << >>

====
